---- MODULE Spec2Model ----
(***************************************************************************)
(* niri_workspaces: a waybar module that shows one button per niri         *)
(* workspace.  The model covers the view builder, the two reconciliation   *)
(* passes (populate_workspaces and the channel handler), the               *)
(* drag-and-drop reorder handlers with move_workspace_to_index, the click  *)
(* handler, and the event thread with the glib channel it sends on.        *)
(***************************************************************************)
EXTENDS Integers, Sequences, FiniteSets, TLC

VARIABLES
    config,         \* Config: the policy the module was initialised with
    workspaces,     \* compositor: the workspace list, in the order ListWorkspaces returns it
    window_counts,  \* compositor: non-ignored windows per workspace id
    container,      \* gtk::Box children, in order: the workspace buttons
    drag,           \* the GTK drag in progress (source button and its closure state)
    pending,        \* messages queued on the glib channel (tx.send, not yet dispatched)
    budget,         \* compositor changes and gestures still allowed in this run
    last,           \* what the handler that ran last did (requests it issued, view it built)
    worker,         \* the event thread: where it is in its loop, and the events niri
                    \* has written to its socket that it has not read yet
    ipc,            \* niri's IPC socket: "up", "down" (no connection can be opened or
                    \* kept) or "refusing" (connections open, EventStream is turned down)
    calc            \* a call of one of the pure functions: its arguments and its result

vars ==
    <<config, workspaces, window_counts, container, drag, pending, budget, last,
      worker, ipc, calc>>

(***************************************************************************)
(* Bounds of the model.                                                    *)
(***************************************************************************)
MaxWs == 3          \* workspaces in a snapshot list of the view-builder specification
MaxCount == 1       \* windows per workspace
MaxBudget == 2      \* compositor changes plus gestures in one run of Spec

NoId == 0           \* Option<u64>::None for a workspace id
None == "None"      \* Option<String>::None

Outputs == {"A", "B"}

SetMin(S) == CHOOSE x \in S : \A y \in S : x <= y

SetMax(S) == CHOOSE m \in S : \A x \in S : x <= m

(***************************************************************************)
(* View builder (populate_workspaces lines 49-95, channel handler 354-400) *)
(***************************************************************************)

\* window_counts.get(&id).copied().unwrap_or(0)
count_of(counts, id) == IF id \in DOMAIN counts THEN counts[id] ELSE 0

\* let output_name = if all_outputs { None } else { workspaces.first().and_then(|ws| ws.output.clone()) }
output_name(wss, cfg) ==
    IF cfg.all_outputs THEN None
    ELSE IF Len(wss) = 0 THEN None ELSE wss[1].output

\* the filter closure of max_workspace_idx
counts_for_max(ws, counts, cfg, out) ==
    IF cfg.all_outputs
    THEN count_of(counts, ws.id) > 0
    ELSE ws.output = out /\ count_of(counts, ws.id) > 0

\* .map(|ws| ws.idx).max().unwrap_or(0)
max_workspace_idx(wss, counts, cfg) ==
    LET out == output_name(wss, cfg)
        occupied == {i \in 1..Len(wss) : counts_for_max(wss[i], counts, cfg, out)}
    IN  IF occupied = {} THEN 0 ELSE SetMax({wss[i].idx : i \in occupied})

\* the empty-workspace branch of the filter closure
MutShowsEmpty(ws, cfg, max_idx) ==
    IF cfg.show_empty_workspace
    THEN ws.idx = max_idx + 1
    ELSE ws.idx = max_idx + 1

shows_empty(ws, cfg, max_idx) ==
    IF cfg.show_empty_workspace
    THEN ws.idx = max_idx + 1
    ELSE ws.idx = max_idx + 1 /\ ws.is_active

\* the filter closure of our_workspaces
keeps(ws, counts, cfg, out, max_idx) ==
    IF ~cfg.all_outputs /\ ws.output # out
    THEN FALSE
    ELSE IF count_of(counts, ws.id) > 0
         THEN TRUE
         ELSE shows_empty(ws, cfg, max_idx)

\* Vec::sort_by_key(|ws| ws.idx): a stable sort
RECURSIVE insert_by_idx(_, _)
insert_by_idx(sorted, ws) ==
    IF Len(sorted) = 0 THEN <<ws>>
    ELSE IF sorted[Len(sorted)].idx <= ws.idx
         THEN Append(sorted, ws)
         ELSE Append(insert_by_idx(SubSeq(sorted, 1, Len(sorted) - 1), ws),
                     sorted[Len(sorted)])

RECURSIVE sort_from(_, _, _)
sort_from(s, i, acc) ==
    IF i > Len(s) THEN acc ELSE sort_from(s, i + 1, insert_by_idx(acc, s[i]))

MutSortByKey(s) == s

sort_by_key(s) == sort_from(s, 1, <<>>)

\* the ordered view both passes build
our_workspaces(wss, counts, cfg) ==
    LET out == output_name(wss, cfg)
        max_idx == max_workspace_idx(wss, counts, cfg)
        kept(ws) == keeps(ws, counts, cfg, out, max_idx)
    IN  sort_by_key(SelectSeq(wss, kept))

ids_of(view) == [i \in 1..Len(view) |-> view[i].id]


(***************************************************************************)
(* Icons and labels                                                        *)
(***************************************************************************)

MutGetPieIcon(count, size) ==
    [foreground |-> IF count <= 6 THEN None
                    ELSE IF count <= 14 THEN "#bf616a" ELSE "#000000",
     size |-> size,
     glyph |-> IF count <= 6 THEN count ELSE 6]

\* get_pie_icon: the markup span for a window count (foreground, size, glyph)
get_pie_icon(count, size) ==
    [foreground |->
        CASE count <= 6 -> None
          [] count = 7  -> "#bf616a"
          [] count = 8  -> "#d08770"
          [] count = 9  -> "#ebcb8b"
          [] count = 10 -> "#a3be8c"
          [] count = 11 -> "#81a1c1"
          [] count = 12 -> "#b48ead"
          [] count = 13 -> "#8b7355"
          [] count = 14 -> "#808080"
          [] OTHER      -> "#000000",
     size |-> size,
     glyph |-> IF count <= 6 THEN count ELSE 6]

\* let value = if let Some(name) = &ws.name { name.clone() } else { ws.idx.to_string() }
display_value(ws) == IF ws.name # None THEN ws.name ELSE ToString(ws.idx)

\* label_text with no format template and no format-icons: the icon alone
label_text(ws, counts, cfg) == <<get_pie_icon(count_of(counts, ws.id), cfg.icon_size)>>

(***************************************************************************)
(* Buttons.  A button is a record: h is the GTK object, ws_id the "ws_id"  *)
(* data stored on it, drag_ws_id the id captured by its drag closures,     *)
(* clicked the ids captured by the click handlers connected to it, in the   *)
(* order of connection, shows the id of the view entry the button's label, *)
(* name and classes were last set from (NoId: not set yet).  The "ws_idx"  *)
(* data is stored at creation and never read; it is left out.              *)
(***************************************************************************)

MutUpdateCssClass(classes, class, should_have) ==
    IF class \in classes THEN classes \ {class} ELSE classes \cup {class}

\* NiriWorkspaces::update_css_class and the update_class closure
update_css_class(classes, class, should_have) ==
    IF should_have
    THEN IF class \notin classes THEN classes \cup {class} ELSE classes
    ELSE IF class \in classes THEN classes \ {class} ELSE classes

\* gtk::Button::new(): an object distinct from every live one
RECURSIVE fresh_handles(_, _)
fresh_handles(n, used) ==
    IF n = 0 THEN <<>>
    ELSE LET h == CHOOSE x \in 1..(Cardinality(used) + 1) :
                      x \notin used /\ \A y \in 1..(x - 1) : y \in used
         IN  <<h>> \o fresh_handles(n - 1, used \cup {h})

MutStateClasses(classes, ws, out) ==
    classes \cup
    {f \in {"focused", "active", "urgent", "empty", "current_output"} :
        \/ f = "focused" /\ ws.is_focused
        \/ f = "active" /\ ws.is_active
        \/ f = "urgent" /\ ws.is_urgent
        \/ f = "empty" /\ ws.active_window_id = NoId
        \/ f = "current_output" /\ out # None /\ ws.output = out}

\* the five state classes and the visibility a pass gives a button
state_classes(classes, ws, out) ==
    LET c1 == update_css_class(classes, "focused", ws.is_focused)
        c2 == update_css_class(c1, "active", ws.is_active)
        c3 == update_css_class(c2, "urgent", ws.is_urgent)
        c4 == update_css_class(c3, "empty", ws.active_window_id = NoId)
    IN  IF out # None
        THEN update_css_class(c4, "current_output", ws.output = out)
        ELSE c4

current_only_visible(ws, cfg) ==
    IF cfg.current_only
    THEN IF cfg.all_outputs THEN ws.is_focused ELSE ws.is_active
    ELSE TRUE

\* populate_workspaces, rebuild branch: the button as created (lines 118-138)
new_button_populate(h, ws) ==
    [h |-> h, ws_id |-> NoId, drag_ws_id |-> ws.id, label |-> <<>>,
     name |-> None, classes |-> {"workspace-button"}, visible |-> FALSE,
     clicked |-> <<>>, shows |-> NoId]

MutNewButtonEvent(h, ws, counts, cfg, out) == new_button_populate(h, ws)

\* channel handler, rebuild branch: the button as created (lines 423-512)
new_button_event(h, ws, counts, cfg, out) ==
    [h |-> h, ws_id |-> ws.id, drag_ws_id |-> ws.id,
     label |-> label_text(ws, counts, cfg),
     name |-> display_value(ws),
     classes |->
        {"workspace-button"}
        \cup (IF ws.is_focused THEN {"focused"} ELSE {})
        \cup (IF ws.is_active THEN {"active"} ELSE {})
        \cup (IF ws.is_urgent THEN {"urgent"} ELSE {})
        \cup (IF ws.active_window_id = NoId THEN {"empty"} ELSE {})
        \cup (IF out # None /\ ws.output = out THEN {"current_output"} ELSE {}),
     visible |-> FALSE,
     clicked |-> IF ~cfg.disable_click THEN <<ws.id>> ELSE <<>>,
     shows |-> ws.id]

MutUpdateButton(b, ws, counts, cfg, out, path) ==
    [b EXCEPT !.label = label_text(ws, counts, cfg),
              !.name = display_value(ws),
              !.classes = state_classes(b.classes, ws, out),
              !.visible = current_only_visible(ws, cfg)]

MutUpdateButtonEveryPass(b, ws, counts, cfg, out, path) ==
    [b EXCEPT !.label = label_text(ws, counts, cfg),
              !.name = display_value(ws),
              !.classes = state_classes(b.classes, ws, out),
              !.visible = current_only_visible(ws, cfg),
              !.shows = ws.id,
              !.ws_id = IF path = "populate" THEN ws.id ELSE @,
              !.clicked = IF path = "populate" /\ ~cfg.disable_click
                          THEN Append(@, ws.id) ELSE @]

\* the update loop body; only populate_workspaces stores ws_id and connects
\* the click handler here (lines 213-224)
update_button(b, ws, counts, cfg, out, path) ==
    LET shown == [b EXCEPT !.label = label_text(ws, counts, cfg),
                           !.name = display_value(ws),
                           !.classes = state_classes(b.classes, ws, out),
                           !.visible = current_only_visible(ws, cfg),
                           !.shows = ws.id]
    IN  IF path = "populate" /\ b.ws_id = NoId
        THEN [shown EXCEPT !.ws_id = ws.id,
                           !.clicked = IF ~cfg.disable_click
                                       THEN Append(b.clicked, ws.id) ELSE b.clicked]
        ELSE shown

MutNeedRebuild(existing, view) == Len(existing) # Len(view)

MutNeedRebuildMissing(existing, view) ==
    \/ Len(existing) # Len(view)
    \/ \E i \in 1..Len(existing) : existing[i].ws_id = NoId

\* need_rebuild: count changed, or some button's stored id is missing or differs
need_rebuild(existing, view) ==
    \/ Len(existing) # Len(view)
    \/ \E i \in 1..Len(existing) :
          i <= Len(view) /\ (existing[i].ws_id = NoId \/ existing[i].ws_id # view[i].id)

\* container.show_all(): shows the box and, recursively, every child
show_all(buttons) == [i \in 1..Len(buttons) |-> [buttons[i] EXCEPT !.visible = TRUE]]

\* the part of a pass after a successful fetch: rebuild if needed, update, show
reconcile(existing, wss, counts, cfg, path, live) ==
    LET out == output_name(wss, cfg)
        view == our_workspaces(wss, counts, cfg)
        hs == fresh_handles(Len(view), live)
        created == [i \in 1..Len(view) |->
                       IF path = "populate"
                       THEN new_button_populate(hs[i], view[i])
                       ELSE new_button_event(hs[i], view[i], counts, cfg, out)]
        buttons == IF need_rebuild(existing, view) THEN created ELSE existing
        updated == [i \in 1..Len(buttons) |->
                       IF i <= Len(view)
                       THEN update_button(buttons[i], view[i], counts, cfg, out, path)
                       ELSE buttons[i]]
    IN  show_all(updated)

(***************************************************************************)
(* IPC.  Every request opens its own connection; an outcome is what the    *)
(* connect and the send of one request come to.                            *)
(***************************************************************************)
Outcomes == {"ok", "connect_failed", "send_failed", "error_reply", "unexpected_response"}

Req(type, id, index) == [type |-> type, id |-> id, index |-> index]

\* the request reaches socket.send only when Socket::connect succeeded
issued(req, outcome) == IF outcome = "connect_failed" THEN <<>> ELSE <<req>>

MutGetWorkspaceInfoOk(r_ws, r_win) == r_ws = "ok"

\* get_workspace_info: Ok only when both requests returned their list
get_workspace_info_ok(r_ws, r_win) == r_ws = "ok" /\ r_win = "ok"

\* the requests get_workspace_info issues
get_workspace_info_reqs(r_ws, r_win) ==
    issued(Req("Workspaces", NoId, 0), r_ws)
    \o (IF r_ws = "ok" THEN issued(Req("Windows", NoId, 0), r_win) ELSE <<>>)


(***************************************************************************)
(* The compositor: what the requests and the user do to its state.         *)
(***************************************************************************)

\* the workspace that holds focus, as move_workspace_to_index finds it:
\* workspaces.iter().find(|w| w.is_focused).map(|w| w.id)
currently_focused(wss) ==
    IF \E i \in 1..Len(wss) : wss[i].is_focused
    THEN wss[CHOOSE i \in 1..Len(wss) :
                 wss[i].is_focused /\ \A j \in 1..(i - 1) : ~wss[j].is_focused].id
    ELSE NoId

ws_by_id(wss, id) == wss[CHOOSE i \in 1..Len(wss) : wss[i].id = id]

\* FocusWorkspace{Id(id)} handled: id is focused, and active on its output
compositor_focus(wss, id) ==
    IF \A i \in 1..Len(wss) : wss[i].id # id THEN wss
    ELSE LET out == ws_by_id(wss, id).output
         IN  [i \in 1..Len(wss) |->
                 [wss[i] EXCEPT
                     !.is_focused = (wss[i].id = id),
                     !.is_active = IF wss[i].output = out THEN wss[i].id = id
                                   ELSE wss[i].is_active]]

\* MoveWorkspaceToIndex{index, Id(id)} handled: id takes the (clamped) index on
\* its output and the workspaces between shift by one
compositor_move(wss, id, index) ==
    IF \A i \in 1..Len(wss) : wss[i].id # id THEN wss
    ELSE LET w == ws_by_id(wss, id)
             n == Cardinality({i \in 1..Len(wss) : wss[i].output = w.output})
             to == IF index < 1 THEN 1 ELSE IF index > n THEN n ELSE index
             from == w.idx
         IN  [i \in 1..Len(wss) |->
                 IF wss[i].output # w.output THEN wss[i]
                 ELSE IF wss[i].id = id THEN [wss[i] EXCEPT !.idx = to]
                 ELSE IF from < to /\ wss[i].idx > from /\ wss[i].idx <= to
                      THEN [wss[i] EXCEPT !.idx = wss[i].idx - 1]
                 ELSE IF to < from /\ wss[i].idx >= to /\ wss[i].idx < from
                      THEN [wss[i] EXCEPT !.idx = wss[i].idx + 1]
                 ELSE wss[i]]

\* a window opens on or closes from workspace id
compositor_windows(wss, counts, id) ==
    [i \in 1..Len(wss) |->
        IF wss[i].id = id
        THEN [wss[i] EXCEPT !.active_window_id = IF counts[id] > 0 THEN 100 + id ELSE NoId]
        ELSE wss[i]]

(***************************************************************************)
(* Drag and drop: GTK container operations and move_workspace_to_index     *)
(***************************************************************************)

\* start_index is the Rc<RefCell<usize>> the source button's drag_begin and drag_end
\* closures share: drag_begin always writes it before drag_end reads it.
\* pre_focus, over and reordered record the gesture and are read by no handler:
\* the workspace focused when the drag began, the slot the pointer was last over,
\* and whether a drag_motion moved the source button.
NoDrag ==
    [active |-> FALSE, h |-> 0, ws_id |-> NoId, start_index |-> 0,
     pre_focus |-> NoId, over |-> 0, reordered |-> FALSE]

is_child(buttons, h) == \E i \in 1..Len(buttons) : buttons[i].h = h

\* container.child_position(widget): 0-based; for a widget that is no child the
\* property read fails and the value keeps its initial 0
child_position(buttons, h) ==
    IF is_child(buttons, h)
    THEN (CHOOSE i \in 1..Len(buttons) : buttons[i].h = h) - 1
    ELSE 0

\* container.reorder_child(child, position): unlink the child, insert it before
\* the element now at position (append when there is none); no child, no effect
reorder_child(buttons, h, position) ==
    IF ~is_child(buttons, h) THEN buttons
    ELSE LET from == child_position(buttons, h) + 1
             b == buttons[from]
             rest == SubSeq(buttons, 1, from - 1) \o SubSeq(buttons, from + 1, Len(buttons))
             at == IF position < 0 \/ position >= Len(rest) THEN Len(rest) ELSE position
         IN  SubSeq(rest, 1, at) \o <<b>> \o SubSeq(rest, at + 1, Len(rest))

set_class(buttons, h, class, on) ==
    [i \in 1..Len(buttons) |->
        IF buttons[i].h = h
        THEN [buttons[i] EXCEPT !.classes = IF on THEN @ \cup {class} ELSE @ \ {class}]
        ELSE buttons[i]]

\* move_workspace_to_index(ws_id, target_index) under the outcomes of its three
\* requests: the requests issued, the result, the compositor afterwards and the
\* events the compositor emits
MutMoveGoesOn(r_list) == TRUE

move_goes_on(r_list) == r_list = "ok"

MutMoveAcknowledged(r_list, r_move) ==
    move_goes_on(r_list) /\ r_move \notin {"connect_failed", "send_failed"}

\* the move reply is Ok(Response::Handled); anything else returns Err
move_acknowledged(r_list, r_move) == move_goes_on(r_list) /\ r_move = "ok"

MutRefocusWanted(original_focused, ws_id) == original_focused # NoId

refocus_wanted(original_focused, ws_id) ==
    original_focused # NoId /\ original_focused # ws_id

move_workspace_to_index(wss, ws_id, target_index, r_list, r_move, r_focus) ==
    LET list_req == Req("Workspaces", NoId, 0)
        move_req == Req("MoveWorkspaceToIndex", ws_id, target_index)
        original_focused == currently_focused(wss)
        focus_req == Req("FocusWorkspace", original_focused, 0)
        acked == move_acknowledged(r_list, r_move)
        refocus == acked /\ refocus_wanted(original_focused, ws_id)
        focused == refocus /\ r_focus = "ok"
        moved == IF acked THEN compositor_move(wss, ws_id, target_index) ELSE wss
    IN  [reqs |-> issued(list_req, r_list)
                  \o (IF move_goes_on(r_list) THEN issued(move_req, r_move) ELSE <<>>)
                  \o (IF refocus THEN issued(focus_req, r_focus) ELSE <<>>),
         ok |-> acked /\ (refocus => r_focus # "connect_failed"),
         wss |-> IF focused THEN compositor_focus(moved, original_focused) ELSE moved,
         events |-> (IF acked THEN 1 ELSE 0) + (IF focused THEN 1 ELSE 0)]

(***************************************************************************)
(* State after construction                                                *)
(***************************************************************************)

\* the event thread blocked in read_event() on an open event stream with
\* nothing to read: where it stays in the specifications that leave it out
\* and let each compositor change queue its message at once
Reading == [pc |-> "read", stream |-> <<>>]

\* no call of a pure function is looked at
NoCalc == [op |-> "none"]

\* the policies checked: every output scope and empty-workspace mode, and
\* current_only in both output scopes
Policies ==
    [all_outputs : BOOLEAN, show_empty_workspace : BOOLEAN, current_only : {FALSE},
     disable_click : {FALSE}, icon_size : {None}]
    \cup
    [all_outputs : BOOLEAN, show_empty_workspace : {TRUE}, current_only : {TRUE},
     disable_click : {FALSE}, icon_size : {None}]

\* the compositor when the bar starts: workspaces 1 and 2 on output A, workspace
\* 3 alone on output B; workspace 2, the last of output A, is empty; workspace 1
\* has focus
StartOutputs == <<"A", "A", "B">>

WsIds == 1..Len(StartOutputs)

StartCounts == [k \in WsIds |-> IF k = 2 THEN 0 ELSE 1]

StartWorkspaces(counts) ==
    [k \in WsIds |->
        [id |-> k,
         idx |-> Cardinality({j \in 1..k : StartOutputs[j] = StartOutputs[k]}),
         name |-> None,
         output |-> StartOutputs[k],
         is_focused |-> (k = 1),
         is_active |-> (\A j \in 1..(k - 1) : StartOutputs[j] # StartOutputs[k]),
         is_urgent |-> FALSE,
         active_window_id |-> IF counts[k] > 0 THEN 100 + k ELSE NoId]]

\* the record of the handler that ran last: whether every request it made got
\* its answer, its requests in order, for drag_end the outcomes r of its requests
\* and the gesture it closed (final is -1 when the source button had no parent;
\* focused is the workspace that had focus when the drag ended)
NoGesture ==
    [start |-> -1, final |-> -1, ws_id |-> NoId, pre_focus |-> NoId, focused |-> NoId,
     over |-> -1, reordered |-> FALSE]

Last(op, ok, reqs, r, gesture) ==
    [op |-> op, ok |-> ok, reqs |-> reqs, r |-> r, gesture |-> gesture]

Passes == {"populate", "event"}

stored_ids(buttons) == [i \in 1..Len(buttons) |-> buttons[i].ws_id]

handles(buttons) == {buttons[i].h : i \in 1..Len(buttons)}

\* the objects alive: the box's children and the source of a drag in progress
live_handles(buttons, d) == handles(buttons) \cup (IF d.active THEN {d.h} ELSE {})

\* the outcomes of the requests one call of get_workspace_info makes: the
\* window list is requested only after the workspace list arrived
FetchOutcomes ==
    {<<r, "ok">> : r \in Outcomes \ {"ok"}} \cup {<<"ok", r>> : r \in Outcomes}

\* one pass of either path over the current compositor state
pass(buttons, d, path, r) ==
    IF get_workspace_info_ok(r[1], r[2])
    THEN reconcile(buttons, workspaces, window_counts, config, path,
                   live_handles(buttons, d))
    ELSE buttons

pass_record(path, r) ==
    Last(path, r[1] = "ok" /\ r[2] = "ok", get_workspace_info_reqs(r[1], r[2]), <<>>,
         NoGesture)

\* Module::init: the box is empty, then populate_workspaces runs once
Init ==
    /\ config \in Policies
    /\ window_counts = StartCounts
    /\ workspaces = StartWorkspaces(window_counts)
    /\ drag = NoDrag
    /\ pending = 0
    /\ budget = MaxBudget
    /\ worker = Reading
    /\ calc = NoCalc
    /\ ipc = "up"
    /\ \E r \in FetchOutcomes :
          /\ container = pass(<<>>, NoDrag, "populate", r)
          /\ last = pass_record("populate", r)

(***************************************************************************)
(* Handlers of the UI context                                              *)
(***************************************************************************)

\* Module::update -> populate_workspaces (waybar's poll)
PopulateWorkspaces ==
    \E r \in FetchOutcomes :
        /\ container' = pass(container, drag, "populate", r)
        /\ last' = pass_record("populate", r)
        /\ UNCHANGED <<config, workspaces, window_counts, drag, pending, budget,
                       worker, ipc, calc>>

\* the rx.attach closure: one queued message, one pass
ChannelHandler ==
    /\ pending > 0
    /\ pending' = pending - 1
    /\ \E r \in FetchOutcomes :
        /\ container' = pass(container, drag, "event", r)
        /\ last' = pass_record("event", r)
    /\ UNCHANGED <<config, workspaces, window_counts, drag, budget, worker, ipc, calc>>

\* connect_drag_begin on the button at position i (1-based here)
DragBegin(i) ==
    /\ ~drag.active
    /\ budget > 0
    /\ container[i].visible
    /\ drag' = [active |-> TRUE, h |-> container[i].h, ws_id |-> container[i].drag_ws_id,
                start_index |-> child_position(container, container[i].h),
                pre_focus |-> currently_focused(workspaces),
                over |-> child_position(container, container[i].h),
                reordered |-> FALSE]
    /\ container' = set_class(container, container[i].h, "dragging", TRUE)
    /\ budget' = budget - 1
    /\ last' = Last("drag_begin", TRUE, <<>>, <<>>, NoGesture)
    /\ UNCHANGED <<config, workspaces, window_counts, pending, worker, ipc, calc>>

\* connect_drag_motion on the button at position j, the pointer being over it
DragMotion(j) ==
    /\ drag.active
    /\ LET widget == container[j].h
           source == drag.h
           source_pos == child_position(container, source)
           target_pos == child_position(container, widget)
       IN  /\ container' = IF source # widget /\ source_pos # target_pos
                           THEN reorder_child(container, source, target_pos)
                           ELSE container
           /\ drag' = [drag EXCEPT !.over = target_pos,
                                   !.reordered = @ \/ container' # container]
    /\ last' = Last("drag_motion", TRUE, <<>>, <<>>, NoGesture)
    /\ UNCHANGED <<config, workspaces, window_counts, pending, budget, worker, ipc, calc>>

\* the outcomes of the requests one call of move_workspace_to_index makes
MoveOutcomes ==
    {<<r, "ok", "ok">> : r \in Outcomes \ {"ok"}}
    \cup {<<"ok", r, "ok">> : r \in Outcomes \ {"ok"}}
    \cup {<<"ok", "ok", r>> : r \in Outcomes}

MutPositionChanged(final_pos, start_pos) == TRUE

\* if final_pos != start_pos
position_changed(final_pos, start_pos) == final_pos # start_pos

\* connect_drag_end on the source button
DragEnd ==
    /\ drag.active
    /\ drag' = NoDrag
    /\ container' = set_class(container, drag.h, "dragging", FALSE)
    /\ LET parented == is_child(container, drag.h)
           final_pos == IF parented THEN child_position(container, drag.h) ELSE -1
           start_pos == drag.start_index
           gesture == [start |-> start_pos, final |-> final_pos, ws_id |-> drag.ws_id,
                       pre_focus |-> drag.pre_focus,
                       focused |-> currently_focused(workspaces),
                       over |-> drag.over, reordered |-> drag.reordered]
       IN  IF parented /\ position_changed(final_pos, start_pos)
           THEN \E r \in MoveOutcomes :
                   LET m == move_workspace_to_index(workspaces, drag.ws_id,
                                final_pos + 1, r[1], r[2], r[3])
                   IN  /\ workspaces' = m.wss
                       /\ pending' = pending + m.events
                       /\ last' = Last("drag_end", m.ok, m.reqs, r, gesture)
           ELSE /\ last' = Last("drag_end", TRUE, <<>>, <<>>, gesture)
                /\ UNCHANGED <<workspaces, pending>>
    /\ UNCHANGED <<config, window_counts, budget, worker, ipc, calc>>

(***************************************************************************)
(* The compositor changing under the bar; each change is an event of       *)
(* interest that the worker thread forwards with tx.send(())               *)
(***************************************************************************)

\* the user focuses another workspace: Event::WorkspaceActivated
CompositorFocus(id) ==
    /\ budget > 0
    /\ currently_focused(workspaces) # id
    /\ workspaces' = compositor_focus(workspaces, id)
    /\ pending' = pending + 1
    /\ budget' = budget - 1
    /\ last' = Last("compositor", TRUE, <<>>, <<>>, NoGesture)
    /\ UNCHANGED <<config, window_counts, container, drag, worker, ipc, calc>>

\* a window opens or closes: Event::WindowOpenedOrChanged, Event::WindowClosed
CompositorWindow(id, d) ==
    /\ budget > 0
    /\ window_counts[id] + d \in 0..MaxCount
    /\ window_counts' = [window_counts EXCEPT ![id] = @ + d]
    /\ workspaces' = compositor_windows(workspaces, window_counts', id)
    /\ pending' = pending + 1
    /\ budget' = budget - 1
    /\ last' = Last("compositor", TRUE, <<>>, <<>>, NoGesture)
    /\ UNCHANGED <<config, container, drag, worker, ipc, calc>>

Next ==
    \/ PopulateWorkspaces
    \/ ChannelHandler
    \/ \E i \in 1..Len(container) : DragBegin(i)
    \/ \E j \in 1..Len(container) : DragMotion(j)
    \/ DragEnd
    \/ \E id \in WsIds : CompositorFocus(id)
    \/ \E id \in WsIds, d \in {-1, 1} : CompositorWindow(id, d)

Spec == Init /\ [][Next]_vars


(***************************************************************************)
(* Clicks.  The bar under every setting of disable_click, with passes,     *)
(* drags and clicks; the compositor changes only by what the bar requests. *)
(***************************************************************************)

\* focus_workspace(id) under the outcome r of its request (lines 757-763)
focus_workspace(wss, id, r) ==
    [reqs |-> issued(Req("FocusWorkspace", id, 0), r),
     wss |-> IF r = "ok" THEN compositor_focus(wss, id) ELSE wss]

\* gtk emits "clicked": every connected handler runs, in order of connection
RECURSIVE run_clicked(_, _, _)
run_clicked(wss, ids, r) ==
    IF ids = <<>> THEN [reqs |-> <<>>, wss |-> wss]
    ELSE LET f == focus_workspace(wss, Head(ids), r)
             rest == run_clicked(f.wss, Tail(ids), r)
         IN  [reqs |-> f.reqs \o rest.reqs, wss |-> rest.wss]

ClickPolicies ==
    [all_outputs : BOOLEAN, show_empty_workspace : {TRUE}, current_only : {FALSE},
     disable_click : BOOLEAN, icon_size : {None}]

InitClick ==
    /\ config \in ClickPolicies
    /\ window_counts = StartCounts
    /\ workspaces = StartWorkspaces(window_counts)
    /\ drag = NoDrag
    /\ pending = 0
    /\ budget = MaxBudget
    /\ worker = Reading
    /\ calc = NoCalc
    /\ ipc = "up"
    /\ \E r \in FetchOutcomes :
          /\ container = pass(<<>>, NoDrag, "populate", r)
          /\ last = pass_record("populate", r)

\* the user clicks the button at position i (1-based here); the record keeps
\* the position and the workspace the button shows
Click(i) ==
    /\ ~drag.active
    /\ budget > 0
    /\ container[i].visible
    /\ \E r \in Outcomes :
          LET c == run_clicked(workspaces, container[i].clicked, r)
          IN  /\ workspaces' = c.wss
              /\ pending' = pending + (IF c.wss # workspaces THEN 1 ELSE 0)
              /\ last' = Last("click", TRUE, c.reqs, <<r>>,
                              [NoGesture EXCEPT !.start = i - 1,
                                                !.ws_id = container[i].shows])
    /\ budget' = budget - 1
    /\ UNCHANGED <<config, window_counts, container, drag, worker, ipc, calc>>

NextClick ==
    \/ PopulateWorkspaces
    \/ ChannelHandler
    \/ \E i \in 1..Len(container) : DragBegin(i)
    \/ \E j \in 1..Len(container) : DragMotion(j)
    \/ DragEnd
    \/ \E i \in 1..Len(container) : Click(i)

SpecClick == InitClick /\ [][NextClick]_vars


(***************************************************************************)
(* The event thread and the channel.  niri writes events to the thread's   *)
(* socket; the thread reads them one by one and sends a message on the     *)
(* glib channel for those it matches; the main loop runs the handler once  *)
(* for each message.                                                       *)
(***************************************************************************)

EventsOfInterest ==
    {"WorkspacesChanged", "WorkspaceActivated", "WindowOpenedOrChanged", "WindowClosed"}

\* events the match sends to its `_ => {}` arm
OtherEvents == {"WindowsChanged", "KeyboardLayoutSwitched"}

MutOfInterest(event) == event # "KeyboardLayoutSwitched"

\* the match on the event read: the arm that calls tx.send(())
of_interest(event) == event \in EventsOfInterest

\* end of the stream: what read_event() returns Err on
Eof == "Eof"

\* what niri writes first on an event stream it accepted: its current state
StreamStart == <<"WorkspacesChanged", "WindowsChanged">>

MutAfterFailure(step) == IF step = "read" THEN "done" ELSE "sleep"

\* the three `continue` branches and the `break` of the inner loop: log,
\* thread::sleep, and the outer loop starts over
after_failure(step) == "sleep"

\* the thread holds an open event stream that niri still writes to
subscribed ==
    /\ worker.pc = "read"
    /\ \A k \in 1..Len(worker.stream) : worker.stream[k] # Eof

\* niri writes events to the stream of a subscribed thread; to no one otherwise
emit(events) == IF subscribed THEN [worker EXCEPT !.stream = @ \o events] ELSE worker

thread_record(ok, event) == Last("thread", ok, <<>>, <<event>>, NoGesture)

\* Socket::connect() at the top of the loop
WorkerConnect ==
    /\ worker.pc = "connect"
    /\ worker' = [worker EXCEPT !.pc = IF ipc = "down" THEN after_failure("connect")
                                       ELSE "request"]
    /\ last' = thread_record(ipc # "down", "connect")
    /\ UNCHANGED <<config, workspaces, window_counts, container, drag, pending, budget,
                   ipc, calc>>

\* socket.send(Request::EventStream) and the check of its reply
WorkerRequest ==
    /\ worker.pc = "request"
    /\ worker' = IF ipc = "up"
                 THEN [pc |-> "read", stream |-> StreamStart]
                 ELSE [pc |-> after_failure("request"), stream |-> <<>>]
    /\ last' = thread_record(ipc = "up", "request")
    /\ UNCHANGED <<config, workspaces, window_counts, container, drag, pending, budget,
                   ipc, calc>>

\* one turn of the inner loop: read_event() returns an event or an error; it
\* blocks while the stream is open and empty
WorkerRead ==
    /\ worker.pc = "read"
    /\ worker.stream # <<>>
    /\ LET event == Head(worker.stream)
       IN  IF event = Eof
           THEN /\ worker' = [pc |-> after_failure("read"), stream |-> <<>>]
                /\ last' = thread_record(FALSE, event)
                /\ UNCHANGED pending
           ELSE /\ worker' = [worker EXCEPT !.stream = Tail(@)]
                /\ last' = thread_record(TRUE, event)
                /\ pending' = IF of_interest(event) THEN pending + 1 ELSE pending
    /\ UNCHANGED <<config, workspaces, window_counts, container, drag, budget, ipc, calc>>

\* thread::sleep returns
WorkerSleep ==
    /\ worker.pc = "sleep"
    /\ worker' = [worker EXCEPT !.pc = "connect"]
    /\ last' = thread_record(TRUE, "sleep")
    /\ UNCHANGED <<config, workspaces, window_counts, container, drag, pending, budget,
                   ipc, calc>>

\* niri changes and tells its subscribers
niri_changed(events) ==
    /\ budget > 0
    /\ budget' = budget - 1
    /\ worker' = emit(events)
    /\ last' = Last("compositor", TRUE, <<>>, <<>>, NoGesture)
    /\ UNCHANGED <<config, container, drag, pending, ipc, calc>>

\* the user moves a workspace: Event::WorkspacesChanged
NiriMoveWorkspace(id, index) ==
    /\ workspaces' = compositor_move(workspaces, id, index)
    /\ workspaces' # workspaces
    /\ UNCHANGED window_counts
    /\ niri_changed(<<"WorkspacesChanged">>)

\* the user focuses another workspace: Event::WorkspaceActivated
NiriFocus(id) ==
    /\ currently_focused(workspaces) # id
    /\ workspaces' = compositor_focus(workspaces, id)
    /\ UNCHANGED window_counts
    /\ niri_changed(<<"WorkspaceActivated">>)

\* a window opens or closes: Event::WindowOpenedOrChanged, Event::WindowClosed
NiriWindow(id, d) ==
    /\ window_counts[id] + d \in 0..MaxCount
    /\ window_counts' = [window_counts EXCEPT ![id] = @ + d]
    /\ workspaces' = compositor_windows(workspaces, window_counts', id)
    /\ niri_changed(IF d > 0 THEN <<"WindowOpenedOrChanged">> ELSE <<"WindowClosed">>)

\* the keyboard layout is switched: an event of no interest to the bar
NiriOther ==
    /\ UNCHANGED <<workspaces, window_counts>>
    /\ niri_changed(<<"KeyboardLayoutSwitched">>)

\* niri's socket goes away, comes back, or turns event streams down; an
\* open event stream ends when the socket leaves "up"
IpcChange(to) ==
    /\ budget > 0
    /\ ipc # to
    /\ ipc' = to
    /\ budget' = budget - 1
    /\ worker' = emit(<<Eof>>)
    /\ last' = Last("compositor", TRUE, <<>>, <<>>, NoGesture)
    /\ UNCHANGED <<config, workspaces, window_counts, container, drag, pending, calc>>

LivePolicy ==
    [all_outputs |-> FALSE, show_empty_workspace |-> TRUE, current_only |-> FALSE,
     disable_click |-> FALSE, icon_size |-> None]

\* Module::init up to thread::spawn: the first pass has run, the thread is at
\* the top of its loop
InitLive ==
    /\ config = LivePolicy
    /\ window_counts = StartCounts
    /\ workspaces = StartWorkspaces(window_counts)
    /\ drag = NoDrag
    /\ pending = 0
    /\ budget = MaxBudget
    /\ worker = [pc |-> "connect", stream |-> <<>>]
    /\ calc = NoCalc
    /\ ipc \in {"up", "down"}
    /\ \E r \in FetchOutcomes :
          /\ container = pass(<<>>, NoDrag, "populate", r)
          /\ last = pass_record("populate", r)

NextLive ==
    \/ WorkerConnect
    \/ WorkerRequest
    \/ WorkerRead
    \/ WorkerSleep
    \/ ChannelHandler
    \/ \E id \in WsIds, index \in WsIds : NiriMoveWorkspace(id, index)
    \/ \E id \in WsIds : NiriFocus(id)
    \/ \E id \in WsIds, d \in {-1, 1} : NiriWindow(id, d)
    \/ NiriOther
    \/ \E to \in {"up", "down", "refusing"} : IpcChange(to)

\* the main loop takes a queued message and runs the handler for it: the
\* handler is the only step that takes a message off the channel
Dispatch == pending > 0 /\ pending' = pending - 1

\* the handler run whose two requests are answered
DispatchFetches == Dispatch /\ last' = pass_record("event", <<"ok", "ok">>)

\* the thread runs while it has a step to take, the main loop dispatches a
\* queued message, and a handler that runs again and again does not fail to
\* fetch for ever; the compositor is under no obligation.  Module::update
\* is left out: waybar calls it when the module asks for it, which this
\* module never does.
SpecLive ==
    /\ InitLive
    /\ [][NextLive]_vars
    /\ WF_vars(WorkerConnect)
    /\ WF_vars(WorkerRequest)
    /\ WF_vars(WorkerRead)
    /\ WF_vars(WorkerSleep)
    /\ WF_pending(Dispatch)
    /\ SF_<<pending, last>>(DispatchFetches)


(***************************************************************************)
(* The view builder on every snapshot list: the box is empty (Module::init *)
(* before its first populate_workspaces), one message is queued, and the   *)
(* compositor holds any well-formed workspace list of up to MaxWs          *)
(* workspaces: per output the idx values are 1..n, one workspace per       *)
(* output is active, and each workspace has no window or MaxCount windows. *)
(***************************************************************************)

on_output(outp, o) == {k \in DOMAIN outp : outp[k] = o}

well_indexed(outp, idxf) ==
    \A o \in Outputs :
        /\ {idxf[k] : k \in on_output(outp, o)} = 1..Cardinality(on_output(outp, o))

one_active(outp, act) ==
    \A o \in Outputs :
        on_output(outp, o) # {} => Cardinality({k \in on_output(outp, o) : act[k]}) = 1

Snapshot(n, outp, idxf, act, counts) ==
    [k \in 1..n |->
        [id |-> k,
         idx |-> idxf[k],
         name |-> None,
         output |-> outp[k],
         is_focused |-> act[k] /\ \A j \in 1..(k - 1) : ~act[j],
         is_active |-> act[k],
         is_urgent |-> FALSE,
         active_window_id |-> IF counts[k] > 0 THEN 100 + k ELSE NoId]]

InitView ==
    /\ config \in Policies
    /\ \E n \in 0..MaxWs :
        \E outp \in [1..n -> Outputs] :
            \E idxf \in [1..n -> 1..n] :
                /\ well_indexed(outp, idxf)
                /\ \E act \in [1..n -> BOOLEAN] :
                    /\ one_active(outp, act)
                    /\ window_counts \in [1..n -> {0, MaxCount}]
                    /\ workspaces = Snapshot(n, outp, idxf, act, window_counts)
    /\ container = <<>>
    /\ drag = NoDrag
    /\ pending = 1
    /\ budget = 0
    /\ worker = Reading
    /\ calc = NoCalc
    /\ ipc = "up"
    /\ last = Last("init", TRUE, <<>>, <<>>, NoGesture)

NextView == PopulateWorkspaces \/ ChannelHandler

SpecView == InitView /\ [][NextView]_vars


(***************************************************************************)
(* Properties                                                              *)
(***************************************************************************)

\* the view a pass builds: a pass leaves the compositor state as it found it
view == our_workspaces(workspaces, window_counts, config)

pass_succeeded == last.op \in Passes /\ last.ok

handle_seq(buttons) == [i \in 1..Len(buttons) |-> buttons[i].h]

\* C1: in every pass that fetched (initial populate, poll, event-driven), all
\* buttons are removed and new ones created in view order exactly when the ids
\* stored on the buttons differ from the ids of the new view; when the two
\* sequences are equal the pass keeps every button and creates none.
RebuildIffIdsDiffer ==
    [][(last'.op \in Passes /\ last'.ok) =>
          IF stored_ids(container) # ids_of(view)
          THEN /\ handles(container') \cap handles(container) = {}
               /\ Len(container') = Len(view)
               /\ Len(container) + Len(container') > 0
          ELSE handle_seq(container') = handle_seq(container)]_vars

\* a pass replaced the buttons of an earlier pass: button 1, which the first
\* button ever created is, is gone from a box that is not empty
WitnessRebuilt ==
    /\ pass_succeeded
    /\ Len(container) > 0
    /\ 1 \notin handles(container)

\* C2: after every pass that fetched, the box holds one button per workspace of
\* the view, and the ids stored on the buttons are the view's ids in view
\* order, whatever order a drag left the buttons in.
ButtonsMatchView ==
    pass_succeeded =>
        /\ Len(container) = Len(view)
        /\ stored_ids(container) = ids_of(view)
        /\ Cardinality(handles(container)) = Len(container)

\* a pass ran while a drag whose motion had reordered the buttons was in progress
WitnessPassAfterReorder ==
    /\ pass_succeeded
    /\ drag.active
    /\ drag.reordered
    /\ Len(container) >= 2

in_scope(ws) ==
    config.all_outputs \/ (Len(workspaces) > 0 /\ ws.output = workspaces[1].output)

occupancy(ws) == IF ws.id \in DOMAIN window_counts THEN window_counts[ws.id] ELSE 0

max_occupied_idx ==
    LET S == {workspaces[i].idx : i \in {j \in 1..Len(workspaces) :
                  in_scope(workspaces[j]) /\ occupancy(workspaces[j]) > 0}}
    IN  IF S = {} THEN 0 ELSE CHOOSE m \in S : \A x \in S : x <= m

empty_slot(ws) ==
    /\ ws.idx = max_occupied_idx + 1
    /\ (config.show_empty_workspace \/ ws.is_active)

displayed(ws) == \E i \in 1..Len(view) : view[i].id = ws.id

\* C3: a workspace is in the view a pass builds exactly when it is in the
\* output scope and either has windows or is at idx max_occupied_idx + 1 and
\* (show_empty_workspace is set or it is active).  For workspace 1 at idx 1
\* with windows and workspace 2 at idx 2 without, on one output, the view is
\* [1, 2] with show_empty_workspace and [1] without it when 2 is not active.
ViewMembership ==
    pass_succeeded =>
        /\ \A i \in 1..Len(workspaces) :
              displayed(workspaces[i]) <=>
                  /\ in_scope(workspaces[i])
                  /\ (occupancy(workspaces[i]) > 0 \/ empty_slot(workspaces[i]))
        /\ (/\ Len(workspaces) = 2
            /\ \A i \in 1..2 : workspaces[i].id = i /\ workspaces[i].idx = i
            /\ workspaces[1].output = workspaces[2].output
            /\ occupancy(workspaces[1]) > 0 /\ occupancy(workspaces[2]) = 0)
           => /\ config.show_empty_workspace => ids_of(view) = <<1, 2>>
              /\ (~config.show_empty_workspace /\ ~workspaces[2].is_active)
                    => ids_of(view) = <<1>>

\* a pass showed an empty workspace only because it is active, and left out a
\* workspace of another output
WitnessActiveEmptyShown ==
    /\ pass_succeeded
    /\ ~config.show_empty_workspace
    /\ \E i \in 1..Len(workspaces) :
          occupancy(workspaces[i]) = 0 /\ displayed(workspaces[i])
    /\ \E i \in 1..Len(workspaces) : ~in_scope(workspaces[i])

\* C4: every view, in single-output and in all-outputs mode, is in ascending
\* idx order and holds no workspace id twice.
ViewSortedUnique ==
    pass_succeeded =>
        /\ \A i, j \in 1..Len(view) : i < j => view[i].idx <= view[j].idx
        /\ \A i, j \in 1..Len(view) : view[i].id = view[j].id => i = j

\* a pass built a view of workspaces that the compositor listed in another order
WitnessViewReordered ==
    /\ pass_succeeded
    /\ \E i, j \in 1..Len(workspaces) :
          /\ i < j
          /\ workspaces[i].idx > workspaces[j].idx
          /\ displayed(workspaces[i]) /\ displayed(workspaces[j])

\* C5: in every view the number of displayed workspaces without windows is
\* one when some in-scope workspace at idx max_occupied_idx + 1 meets the
\* empty-slot condition, and zero otherwise.
ExactlyOneNextEmpty ==
    pass_succeeded =>
        Cardinality({i \in 1..Len(view) : occupancy(view[i]) = 0}) =
            IF \E i \in 1..Len(workspaces) :
                  in_scope(workspaces[i]) /\ empty_slot(workspaces[i])
            THEN 1 ELSE 0


moves(reqs) == SelectSeq(reqs, LAMBDA q : q.type = "MoveWorkspaceToIndex")

focuses(reqs) == SelectSeq(reqs, LAMBDA q : q.type = "FocusWorkspace")

drag_ended == last.op = "drag_end"

ended_elsewhere ==
    drag_ended /\ last.gesture.final >= 0 /\ last.gesture.final # last.gesture.start

\* C6: a drag that ends with the source button at the position it had when the
\* drag began issues no request at all, however often drag_motion reordered the
\* buttons in between; drag_begin and drag_motion issue none either.
NoRequestWhenNotMoved ==
    /\ last.op \in {"drag_begin", "drag_motion"} => last.reqs = <<>>
    /\ (drag_ended /\ last.gesture.final = last.gesture.start) => last.reqs = <<>>

\* a drag moved its button away and back and ended where it began
WitnessDraggedBack ==
    /\ drag_ended
    /\ last.gesture.final = last.gesture.start
    /\ last.gesture.reordered

\* C7 as claimed: a drag that ends with the source button at another position
\* issues exactly one MoveWorkspaceToIndex, for the dragged id with index
\* final_position + 1, whatever the workspace-list request came to.
MoveIssuedWhateverTheList ==
    ended_elsewhere =>
        moves(last.reqs) =
            <<Req("MoveWorkspaceToIndex", last.gesture.ws_id, last.gesture.final + 1)>>

\* C7 amended: a drag that ends with the source button at another position
\* issues exactly one MoveWorkspaceToIndex, for the dragged id with index
\* final_position + 1, when the workspace-list request returned the list and
\* the connection for the move opened; otherwise it issues no move.
MoveIssuedWhenListed ==
    ended_elsewhere =>
        moves(last.reqs) =
            IF last.r[1] = "ok" /\ last.r[2] # "connect_failed"
            THEN <<Req("MoveWorkspaceToIndex", last.gesture.ws_id, last.gesture.final + 1)>>
            ELSE <<>>

\* a drag ended at another position and its move was issued
WitnessMoveIssued ==
    /\ ended_elsewhere
    /\ last.gesture.reordered
    /\ moves(last.reqs) # <<>>

\* C8 as claimed: FocusWorkspace(f) is issued exactly when the move was issued
\* and f, the workspace focused before the gesture, differs from the dragged
\* id; it follows the move and targets the workspace focused before the gesture.
RefocusPreGestureFocus ==
    drag_ended =>
        LET f == last.gesture.pre_focus
        IN  /\ focuses(last.reqs) # <<>> <=>
                  (moves(last.reqs) # <<>> /\ f # NoId /\ f # last.gesture.ws_id)
            /\ focuses(last.reqs) # <<>> =>
                  /\ focuses(last.reqs) = <<Req("FocusWorkspace", f, 0)>>
                  /\ last.reqs[Len(last.reqs)].type = "FocusWorkspace"

\* C8 amended: FocusWorkspace(f) is issued exactly when the move was
\* acknowledged, f, the workspace the list fetched at drag end shows focused,
\* exists and differs from the dragged id, and the connection for the refocus
\* opened; it is the last request, after the move, and targets f.
RefocusAfterAcknowledgedMove ==
    drag_ended =>
        LET f == last.gesture.focused
        IN  /\ focuses(last.reqs) # <<>> <=>
                  /\ ended_elsewhere
                  /\ last.r[1] = "ok" /\ last.r[2] = "ok" /\ last.r[3] # "connect_failed"
                  /\ f # NoId /\ f # last.gesture.ws_id
            /\ focuses(last.reqs) # <<>> =>
                  /\ last.reqs = <<Req("Workspaces", NoId, 0),
                                   Req("MoveWorkspaceToIndex", last.gesture.ws_id,
                                       last.gesture.final + 1),
                                   Req("FocusWorkspace", f, 0)>>

\* a refocus was issued after focus had changed during the drag
WitnessRefocusAfterFocusChange ==
    /\ drag_ended
    /\ focuses(last.reqs) # <<>>
    /\ last.gesture.focused # last.gesture.pre_focus

\* C9: whatever passes run between drag begin and drag end, a drag dropped on a
\* slot other than the one it started from issues the move for the dragged
\* workspace with that slot's index, unless a request of the move protocol
\* fails before the move is sent.
DragCompletesDespitePasses ==
    (drag_ended /\ last.gesture.over # last.gesture.start) =>
        \/ moves(last.reqs) =
              <<Req("MoveWorkspaceToIndex", last.gesture.ws_id, last.gesture.over + 1)>>
        \/ Len(last.r) = 3 /\ (last.r[1] # "ok" \/ last.r[2] = "connect_failed")

\* C10: when either request of a pass fails (no connection, a transport error,
\* an error reply or another response type), the pass leaves the box as it was:
\* the same buttons in the same order with the same labels, classes and
\* visibility.
UnchangedOnFetchFailure ==
    [][(last'.op \in Passes /\ ~last'.ok) => container' = container]_vars

\* a pass got the workspace list, failed on the window list, and kept a box
\* that no longer matches the view
WitnessStaleKept ==
    /\ last.op \in Passes
    /\ ~last.ok
    /\ Len(last.reqs) = 2
    /\ container # <<>>
    /\ stored_ids(container) # ids_of(view)

\* the move protocol of the drag that just ended failed: the workspace list was
\* not fetched or the move was not acknowledged
move_failed ==
    ended_elsewhere /\ Len(last.r) = 3 /\ (last.r[1] # "ok" \/ last.r[2] # "ok")

\* C12: a drag that ends at another position and whose move protocol fails
\* (list not fetched, move not acknowledged) leaves the buttons in the order
\* the drag gave them, and a pass that fetches from a box whose ids are out of
\* step with the view, as that drag left it, ends with the ids of the view.
OptimisticOrderKeptThenRestored ==
    [][/\ (/\ last'.op = "drag_end"
           /\ last'.gesture.final >= 0
           /\ last'.gesture.final # last'.gesture.start
           /\ Len(last'.r) = 3
           /\ (last'.r[1] # "ok" \/ last'.r[2] # "ok")) =>
              /\ handle_seq(container') = handle_seq(container)
              /\ stored_ids(container') = stored_ids(container)
       /\ (last'.op \in Passes /\ last'.ok /\ stored_ids(container) # ids_of(view)) =>
              stored_ids(container') = ids_of(view)]_vars

\* a drag reordered the buttons, its move failed, and the box keeps the
\* order that no longer matches the view
WitnessOptimisticOrderKept ==
    /\ move_failed
    /\ last.gesture.reordered
    /\ Len(container) = Len(view)
    /\ stored_ids(container) # ids_of(view)

\* C18: when the move is not acknowledged (no connection, transport failure,
\* error reply, a response other than Handled) the move protocol returns an
\* error and issues no FocusWorkspace; when the workspace-list request fails
\* it issues neither a move nor a FocusWorkspace.
NoRefocusWithoutAcknowledgedMove ==
    (ended_elsewhere /\ Len(last.r) = 3) =>
        /\ (last.r[1] # "ok" \/ last.r[2] # "ok") =>
              ~last.ok /\ focuses(last.reqs) = <<>>
        /\ last.r[1] # "ok" =>
              moves(last.reqs) = <<>> /\ focuses(last.reqs) = <<>>

\* the move was sent and answered with something other than Handled, while
\* another workspace than the dragged one had focus
WitnessMoveRefused ==
    /\ ended_elsewhere
    /\ Len(last.r) = 3
    /\ last.r[2] \in {"error_reply", "unexpected_response"}
    /\ moves(last.reqs) # <<>>
    /\ last.gesture.focused \notin {NoId, last.gesture.ws_id}

\* C19: once the move has been acknowledged the move protocol returns Ok,
\* whatever the connect, the send or the reply of the refocus comes to.
MoveOkWhateverTheRefocus ==
    (ended_elsewhere /\ Len(last.r) = 3 /\ last.r[1] = "ok" /\ last.r[2] = "ok") =>
        last.ok

\* what a pass sets on a button
shown(b) == [label |-> b.label, name |-> b.name, classes |-> b.classes,
             visible |-> b.visible]

\* C13: of two passes that fetch, one right after the other with the
\* compositor state and the button order as the first left them, the second
\* builds the same view (the buttons of both carry the ids of the one view
\* of that state), removes and creates no button, and leaves every button's
\* label, classes and visibility as the first pass set them.
RefreshIdempotent ==
    [][(pass_succeeded /\ last'.op \in Passes /\ last'.ok) =>
          /\ stored_ids(container) = ids_of(view)
          /\ stored_ids(container') = ids_of(view)
          /\ handle_seq(container') = handle_seq(container)
          /\ \A i \in 1..Len(container) : shown(container'[i]) = shown(container[i])]_vars

\* a pass has fetched and left buttons with their classes set, one of them
\* focused, for a compositor state that no handler changes: the next pass
\* is the second of two
WitnessPassToRepeat ==
    /\ pass_succeeded
    /\ Len(container) >= 2
    /\ stored_ids(container) = ids_of(view)
    /\ \E i \in 1..Len(container) : "focused" \in container[i].classes
    /\ \E i \in 1..Len(container) : "empty" \in container[i].classes

\* C14: with current_only set, at the end of every pass that fetched a button
\* is visible exactly when its workspace is focused (all_outputs) or active
\* (one output); without current_only every button of the view is visible.
CurrentOnlyVisibility ==
    pass_succeeded =>
        \A i \in 1..Len(container) :
            i <= Len(view) =>
                (container[i].visible <=>
                    IF config.current_only
                    THEN IF config.all_outputs THEN view[i].is_focused
                                               ELSE view[i].is_active
                    ELSE TRUE)

\* the buttons that a step keeps keep the id stored on them, and no button
\* ever has more than one click handler
ids_kept_one_handler ==
    /\ \A i \in 1..Len(container), j \in 1..Len(container') :
          container'[j].h = container[i].h => container'[j].ws_id = container[i].ws_id
    /\ \A j \in 1..Len(container') : Len(container'[j].clicked) <= 1

\* C20 as claimed: a click on a button issues exactly one FocusWorkspace, for
\* the workspace the button shows, when disable_click is false and none when
\* it is true; no button has more than one click handler, the id stored on
\* a button never changes, and the click changes no button.
ClickFocusesShown ==
    [][/\ ids_kept_one_handler
       /\ last'.op = "click" =>
              /\ container' = container
              /\ last'.reqs = IF config.disable_click THEN <<>>
                              ELSE <<Req("FocusWorkspace", last'.gesture.ws_id, 0)>>]_vars

\* C20 amended: as claimed, but the FocusWorkspace is issued only when the
\* connection for it opens; when it does not, the click issues nothing.
ClickFocusesShownWhenConnected ==
    [][/\ ids_kept_one_handler
       /\ last'.op = "click" =>
              /\ container' = container
              /\ last'.reqs = IF config.disable_click \/ last'.r[1] = "connect_failed"
                              THEN <<>>
                              ELSE <<Req("FocusWorkspace", last'.gesture.ws_id, 0)>>]_vars

\* a click on a button of a box that a pass rebuilt after a drag had moved a
\* workspace issued its FocusWorkspace
WitnessClickAfterRebuild ==
    /\ last.op = "click"
    /\ last.reqs # <<>>
    /\ 1 \notin handles(container)
    /\ Len(view) >= 2
    /\ view[1].id # 1

\* C11: when the compositor has stopped changing and its socket stays up,
\* the ids stored on the buttons eventually equal the ids of the view of
\* the compositor's final state and stay equal, also when a change fell
\* into a time when the event stream was down.
EventuallyStructurallyCorrect ==
    <>[](ipc = "up") => <>[](stored_ids(container) = ids_of(view))

WorkerPcs == {"connect", "request", "read", "sleep"}

\* C15: the event thread is always at one of the four places of its loop;
\* after a failed connect, a failed or refused EventStream request or a read
\* error it sleeps and then connects again; and once niri's socket is up for
\* good the thread gets back to reading events and stays there.
WorkerNeverStops ==
    /\ [](worker.pc \in WorkerPcs)
    /\ [][(last'.op = "thread" /\ ~last'.ok) =>
              worker'.pc = "sleep" /\ worker'.stream = <<>>]_vars
    /\ (worker.pc = "sleep") ~> (worker.pc = "connect")
    /\ <>[](ipc = "up") => <>[](worker.pc = "read")

\* the thread read the end of its event stream, dropped it and sleeps
WitnessWorkerBackingOff ==
    /\ worker = [pc |-> "sleep", stream |-> <<>>]
    /\ last.op = "thread"
    /\ ~last.ok
    /\ last.r = <<Eof>>

\* C16: a step of the event thread queues a message exactly when it read a
\* WorkspacesChanged, WorkspaceActivated, WindowOpenedOrChanged or
\* WindowClosed event; a handler pass takes one queued message, so no other
\* event brings one about; and every queued message is followed by its pass:
\* the channel is empty again and again.
SignalIffEventOfInterest ==
    /\ [][/\ pending' > pending <=>
                /\ last'.op = "thread"
                /\ last'.r[1] \in {"WorkspacesChanged", "WorkspaceActivated",
                                    "WindowOpenedOrChanged", "WindowClosed"}
          /\ pending' > pending => pending' = pending + 1
          /\ last'.op = "event" => pending > 0 /\ pending' = pending - 1]_vars
    /\ []<>(pending = 0)

\* the handler ran for the message of a WindowClosed event, after the thread
\* had read an event of no interest without queueing anything
WitnessSignalHandled ==
    /\ last.op = "event"
    /\ pending = 0
    /\ worker = Reading
    /\ budget = 0
    /\ \E id \in WsIds : window_counts[id] < StartCounts[id]

\* C17: the channel holds at most one message: events of interest that
\* arrive before the handler has run queue one message between them.
PendingSingleSlot == pending <= 1

-----------------------------------------------------------------------------
\* Counting windows (get_workspace_info).  A window is a record of its
\* app_id, title and workspace_id, each of which may be None (NoId for the
\* workspace); an ignore rule is a record of an app_id and a title, each of
\* which may be None.

MaxWindows == 2
MaxRules == 2

AppIds == {"a", "b"}
Titles == {"t", "u"}
CountedIds == {1, 2}

Windows == [app_id : AppIds \cup {None}, title : Titles \cup {None},
            workspace_id : CountedIds \cup {NoId}]
IgnoreRules == [app_id : {"a", None}, title : {"t", None}]

\* rule.app_id.as_ref().map_or(true, |app_id|
\*     window.app_id.as_ref().map_or(false, |w_app_id| w_app_id == app_id))
MutAppIdMatches(rule, window) ==
    IF rule.app_id = None THEN TRUE
    ELSE IF window.app_id = None THEN TRUE
    ELSE window.app_id = rule.app_id

app_id_matches(rule, window) ==
    IF rule.app_id = None THEN TRUE
    ELSE IF window.app_id = None THEN FALSE
    ELSE window.app_id = rule.app_id

title_matches(rule, window) ==
    IF rule.title = None THEN TRUE
    ELSE IF window.title = None THEN FALSE
    ELSE window.title = rule.title

\* ignore_rules.iter().any(|rule| app_id_matches && title_matches)
should_ignore(window, ignore_rules) ==
    \E k \in 1..Len(ignore_rules) :
        /\ app_id_matches(ignore_rules[k], window)
        /\ title_matches(ignore_rules[k], window)

\* *window_counts.entry(ws_id).or_insert(0) += 1
entry_add_one(counts, ws_id) ==
    [id \in DOMAIN counts \cup {ws_id} |->
        IF id = ws_id THEN count_of(counts, id) + 1 ELSE counts[id]]

\* the loop over the windows, from window k on, with the map built so far
RECURSIVE count_from(_, _, _, _)
count_from(windows, ignore_rules, k, counts) ==
    IF k > Len(windows) THEN counts
    ELSE count_from(windows, ignore_rules, k + 1,
            IF /\ ~should_ignore(windows[k], ignore_rules)
               /\ windows[k].workspace_id # NoId
            THEN entry_add_one(counts, windows[k].workspace_id)
            ELSE counts)

\* the window_counts of get_workspace_info: a map from workspace ids to
\* numbers, with no entry for a workspace none of whose windows counts
count_windows(windows, ignore_rules) == count_from(windows, ignore_rules, 1, <<>>)

SeqsUpTo(S, n) == UNION {[1..m -> S] : m \in 0..n}

\* the rest of the module's state while a pure function is called on its own:
\* no bar is built
no_bar == <<config, workspaces, window_counts, container, drag, pending, budget,
            last, worker, ipc>>

NoBar ==
    /\ config = [all_outputs |-> FALSE, show_empty_workspace |-> TRUE,
                 current_only |-> FALSE, disable_click |-> FALSE, icon_size |-> None]
    /\ window_counts = StartCounts
    /\ workspaces = StartWorkspaces(window_counts)
    /\ container = <<>>
    /\ drag = NoDrag
    /\ pending = 0
    /\ budget = 0
    /\ last = Last("none", TRUE, <<>>, <<>>, NoGesture)
    /\ worker = Reading
    /\ ipc = "up"

\* get_workspace_info is about to count a window list under a rule list
InitCount ==
    /\ NoBar
    /\ \E windows \in SeqsUpTo(Windows, MaxWindows),
          ignore_rules \in SeqsUpTo(IgnoreRules, MaxRules) :
          calc = [op |-> "count_windows", windows |-> windows,
                  ignore_rules |-> ignore_rules, done |-> FALSE, result |-> <<>>]

CountWindows ==
    /\ calc.op = "count_windows"
    /\ ~calc.done
    /\ calc' = [calc EXCEPT !.done = TRUE,
                            !.result = count_windows(calc.windows, calc.ignore_rules)]
    /\ UNCHANGED no_bar

NextCount == CountWindows

SpecCount == InitCount /\ [][NextCount]_vars

\* a window matches a rule iff every field the rule has equals the window's
matches_rule(window, rule) ==
    \A field \in {"app_id", "title"} :
        rule[field] # None => window[field] = rule[field]

\* the windows of workspace w that match no rule
counted(windows, ignore_rules, w) ==
    {k \in 1..Len(windows) :
        /\ windows[k].workspace_id = w
        /\ \A j \in 1..Len(ignore_rules) : ~matches_rule(windows[k], ignore_rules[j])}

\* C21: the occupancy of every workspace w is the number of windows of w that
\* match no ignore rule, a window matching a rule iff every field the rule has
\* equals the window's; windows without a workspace count toward none.
OccupancyCountsUnignored ==
    (calc.op = "count_windows" /\ calc.done) =>
        /\ \A w \in CountedIds :
              count_of(calc.result, w)
                  = Cardinality(counted(calc.windows, calc.ignore_rules, w))
        /\ DOMAIN calc.result \subseteq CountedIds

\* counted: a window without app_id under a rule on app_id, next to a window of
\* the same workspace the rule ignores and a window of no workspace
WitnessWindowLackingFieldCounted ==
    /\ calc.op = "count_windows" /\ calc.done
    /\ calc.ignore_rules = <<[app_id |-> "a", title |-> None]>>
    /\ Len(calc.windows) = 2
    /\ calc.windows[1] = [app_id |-> None, title |-> "t", workspace_id |-> 1]
    /\ calc.windows[2] = [app_id |-> "a", title |-> "u", workspace_id |-> 1]
    /\ count_of(calc.result, 1) = 1

-----------------------------------------------------------------------------
\* State flags across compositor changes, without gestures.

\* a workspace becomes urgent or stops being urgent; the event thread forwards
\* no message for Event::WorkspaceUrgencyChanged
CompositorUrgent(id) ==
    /\ budget > 0
    /\ workspaces' = [i \in 1..Len(workspaces) |->
                         IF workspaces[i].id = id
                         THEN [workspaces[i] EXCEPT !.is_urgent = ~@]
                         ELSE workspaces[i]]
    /\ budget' = budget - 1
    /\ last' = Last("compositor", TRUE, <<>>, <<>>, NoGesture)
    /\ UNCHANGED <<config, window_counts, container, drag, pending, worker, ipc, calc>>

FlagPolicies ==
    [all_outputs : BOOLEAN, show_empty_workspace : {TRUE}, current_only : {FALSE},
     disable_click : {FALSE}, icon_size : {None}]

\* the bar after construction, its first fetch answered
InitFlags ==
    /\ config \in FlagPolicies
    /\ window_counts = StartCounts
    /\ workspaces = StartWorkspaces(window_counts)
    /\ drag = NoDrag
    /\ pending = 0
    /\ budget = MaxBudget
    /\ worker = Reading
    /\ calc = NoCalc
    /\ ipc = "up"
    /\ container = pass(<<>>, NoDrag, "populate", <<"ok", "ok">>)
    /\ last = pass_record("populate", <<"ok", "ok">>)

NextFlags ==
    \/ PopulateWorkspaces
    \/ ChannelHandler
    \/ \E id \in WsIds : CompositorFocus(id)
    \/ \E id \in WsIds, d \in {-1, 1} : CompositorWindow(id, d)
    \/ \E id \in WsIds : CompositorUrgent(id)

SpecFlags == InitFlags /\ [][NextFlags]_vars

StateFlags == {"focused", "active", "urgent", "empty", "current_output"}

\* the flags the snapshot ws calls for; reference is None in all-outputs mode
flags_of(ws, reference) ==
    {f \in StateFlags :
        \/ f = "focused" /\ ws.is_focused
        \/ f = "active" /\ ws.is_active
        \/ f = "urgent" /\ ws.is_urgent
        \/ f = "empty" /\ ws.active_window_id = NoId
        \/ f = "current_output" /\ reference # None /\ ws.output = reference}

-----------------------------------------------------------------------------
\* Icons from the format-icons table (get_format_icon).  The table is a
\* record of the five optional state icons and the map named from keys to
\* icons; icons are strings.

MaxIdx == 2

\* the names a workspace may bear: none, a word, or a numeral
WsNames == {None, "web", "2"}

IconKeys == {"web"} \cup {ToString(k) : k \in 1..MaxIdx}

FormatIcons ==
    {[urgent |-> u, empty |-> e, focused |-> f, active |-> a, default |-> d,
      named |-> [key \in keys |-> "named-" \o key]] :
        u \in {None, "U"}, e \in {None, "E"}, f \in {None, "F"}, a \in {None, "A"},
        d \in {None, "D"}, keys \in SUBSET IconKeys}

IconWorkspaces ==
    [is_urgent : BOOLEAN, is_focused : BOOLEAN, is_active : BOOLEAN,
     active_window_id : {NoId, 101}, name : WsNames, idx : 1..MaxIdx]

\* icons.named.get(key)
named_get(icons, key) == IF key \in DOMAIN icons.named THEN icons.named[key] ELSE None

MutGetFormatIcon(ws, format_icons, value) ==
    IF format_icons = <<>> THEN value
    ELSE LET icons == format_icons[1]
         IN  IF ws.is_urgent /\ icons.urgent # None THEN icons.urgent
             ELSE IF ws.is_focused /\ icons.focused # None THEN icons.focused
             ELSE IF ws.active_window_id = NoId /\ icons.empty # None THEN icons.empty
             ELSE IF ws.is_active /\ icons.active # None THEN icons.active
             ELSE IF ws.name # None /\ named_get(icons, ws.name) # None
                  THEN named_get(icons, ws.name)
             ELSE IF named_get(icons, ToString(ws.idx)) # None
                  THEN named_get(icons, ToString(ws.idx))
             ELSE IF icons.default # None THEN icons.default
             ELSE value

\* an absent table is <<>>, a table icons is <<icons>>
get_format_icon(ws, format_icons, value) ==
    IF format_icons = <<>> THEN value
    ELSE LET icons == format_icons[1]
         IN  IF ws.is_urgent /\ icons.urgent # None THEN icons.urgent
             ELSE IF ws.active_window_id = NoId /\ icons.empty # None THEN icons.empty
             ELSE IF ws.is_focused /\ icons.focused # None THEN icons.focused
             ELSE IF ws.is_active /\ icons.active # None THEN icons.active
             ELSE IF ws.name # None /\ named_get(icons, ws.name) # None
                  THEN named_get(icons, ws.name)
             ELSE IF named_get(icons, ToString(ws.idx)) # None
                  THEN named_get(icons, ToString(ws.idx))
             ELSE IF icons.default # None THEN icons.default
             ELSE value

\* populate_workspaces is about to pick the icon of a workspace from a table
InitIcon ==
    /\ NoBar
    /\ \E ws \in IconWorkspaces, icons \in FormatIcons :
          calc = [op |-> "get_format_icon", ws |-> ws, format_icons |-> <<icons>>,
                  done |-> FALSE, result |-> None]

GetFormatIcon ==
    /\ calc.op = "get_format_icon"
    /\ ~calc.done
    /\ calc' = [calc EXCEPT
                   !.done = TRUE,
                   !.result = get_format_icon(calc.ws, calc.format_icons,
                                              display_value(calc.ws))]
    /\ UNCHANGED no_bar

NextIcon == GetFormatIcon

SpecIcon == InitIcon /\ [][NextIcon]_vars

\* the categories in order, each with whether it holds for ws and its icon in
\* the table (None when not configured)
categories(ws, icons) ==
    <<[holds |-> ws.is_urgent, icon |-> icons.urgent],
      [holds |-> ws.active_window_id = NoId, icon |-> icons.empty],
      [holds |-> ws.is_focused, icon |-> icons.focused],
      [holds |-> ws.is_active, icon |-> icons.active],
      [holds |-> ws.name # None,
       icon |-> IF ws.name \in DOMAIN icons.named THEN icons.named[ws.name] ELSE None],
      [holds |-> TRUE,
       icon |-> IF ToString(ws.idx) \in DOMAIN icons.named
                THEN icons.named[ToString(ws.idx)] ELSE None],
      [holds |-> TRUE, icon |-> icons.default]>>

applicable(ws, icons) ==
    {k \in 1..Len(categories(ws, icons)) :
        categories(ws, icons)[k].holds /\ categories(ws, icons)[k].icon # None}

\* C23: with a table configured, the icon is that of the first category, in
\* the order urgent, empty, focused, active, named by name, named by index
\* string, default, that holds for the workspace and has an icon in the table;
\* it is the display value (name, or index as a numeral) when there is none.
FirstApplicableIcon ==
    (calc.op = "get_format_icon" /\ calc.done) =>
        LET icons == calc.format_icons[1]
            ks == applicable(calc.ws, icons)
        IN  IF ks = {}
            THEN calc.result = (IF calc.ws.name # None THEN calc.ws.name
                                ELSE ToString(calc.ws.idx))
            ELSE calc.result
                    = categories(calc.ws, icons)[SetMin(ks)].icon

\* an urgent, empty, focused workspace named "2" with index 1, under a table
\* without urgent icon: the empty icon wins over focused, "2" and "1"
WitnessEmptyBeforeFocused ==
    /\ calc.op = "get_format_icon" /\ calc.done
    /\ calc.ws.is_urgent /\ calc.ws.is_focused /\ calc.ws.active_window_id = NoId
    /\ calc.ws.name = "2" /\ calc.ws.idx = 1
    /\ calc.format_icons[1].urgent = None
    /\ calc.format_icons[1].focused # None
    /\ DOMAIN calc.format_icons[1].named = {"1", "2"}
    /\ calc.result = "E"

-----------------------------------------------------------------------------
\* The gradient icon (get_pie_icon) on its own.

MaxPieCount == 17

IconSizes == {None, "small", "large"}

\* populate_workspaces is about to draw the icons of two window counts
InitPie ==
    /\ NoBar
    /\ \E a \in 0..MaxPieCount, b \in 0..MaxPieCount, size \in IconSizes :
          calc = [op |-> "get_pie_icon", counts |-> <<a, b>>, size |-> size,
                  done |-> FALSE, result |-> <<>>]

GetPieIcon ==
    /\ calc.op = "get_pie_icon"
    /\ ~calc.done
    /\ calc' = [calc EXCEPT
                   !.done = TRUE,
                   !.result = <<get_pie_icon(calc.counts[1], calc.size),
                                get_pie_icon(calc.counts[2], calc.size)>>]
    /\ UNCHANGED no_bar

NextPie == GetPieIcon

SpecPie == InitPie /\ [][NextPie]_vars

\* the bucket of a window count: the count itself up to 15, 15 beyond
bucket(count) == IF count >= 15 THEN 15 ELSE count

\* the colors the counts 7 to 14 are drawn in
ramp_colors(size) == {get_pie_icon(c, size).foreground : c \in 7..14}

pie_buckets(colors) ==
    (calc.op = "get_pie_icon" /\ calc.done) =>
        /\ (calc.result[1] = calc.result[2])
               <=> (bucket(calc.counts[1]) = bucket(calc.counts[2]))
        /\ calc.counts[1] = 0 =>
               calc.result[1].glyph = 0 /\ calc.result[1].foreground = None
        /\ Cardinality(ramp_colors(calc.size)) = colors
        /\ None \notin ramp_colors(calc.size)

\* C24 as stated: the icon is a function of the window count into 16 buckets:
\* two counts are drawn alike iff both are the same count or both are 15 or
\* more, count 0 is the empty hexagon, and the counts 7 to 14 are drawn in seven
\* distinct colors.
PieIconSevenColors == pie_buckets(7)

\* C24, amended: as stated, but the counts 7 to 14 are drawn in eight distinct
\* colors, one each.
PieIconEightColors == pie_buckets(8)

\* the counts 15 and 17 were drawn, at a given size, and came out alike
WitnessCappedAtFifteen ==
    /\ calc.op = "get_pie_icon" /\ calc.done
    /\ calc.counts = <<15, 17>>
    /\ calc.size = "small"
    /\ calc.result[1] = calc.result[2]
    /\ calc.result[1].foreground = "#000000"

-----------------------------------------------------------------------------
\* The order the gesture leaves and the order the compositor reports.

\* a drag has just ended on another slot than it began on, its move was
\* acknowledged, and the compositor changed in nothing else since the bar was
\* built: the gesture is all the budget spent
moved_alone ==
    /\ last.op = "drag_end"
    /\ last.gesture.final # -1
    /\ last.gesture.final # last.gesture.start
    /\ Len(last.r) = 3 /\ last.r[1] = "ok" /\ last.r[2] = "ok"
    /\ budget = MaxBudget - 1

\* C25: after such a drag the stored ids of the buttons, in the order the drag
\* motions left them, are the ids of the view of the compositor after the move,
\* and the next pass of either path keeps every button: no rebuild.
OptimisticOrderIsBackendOrder ==
    moved_alone =>
        /\ stored_ids(container) = ids_of(view)
        /\ \A path \in Passes :
              handle_seq(pass(container, drag, path, <<"ok", "ok">>))
                  = handle_seq(container)

\* C26: after every successful pass, under every policy, the button at
\* container position p (0-based) shows the workspace whose idx in the
\* compositor is p + 1: the index drag_end sends for a slot is the idx of the
\* workspace shown there.
PositionIsBackendIdx ==
    pass_succeeded =>
        \A i \in 1..Len(container) :
            \E k \in 1..Len(workspaces) :
                /\ workspaces[k].id = container[i].shows
                /\ workspaces[k].idx = (i - 1) + 1

-----------------------------------------------------------------------------
\* What a drag motion does.

\* the buttons of a sequence other than the one with handle h, in order
others(buttons, h) ==
    LET other(b) == b.h # h
    IN  SelectSeq(buttons, other)

\* C27: a drag motion makes no request and changes nothing in the compositor;
\* it keeps the buttons and their stored ids and only permutes them: over a
\* button other than the dragged one the dragged button takes that button's
\* position and the other buttons keep their relative order; over the dragged
\* button itself nothing changes.
MotionOnlyPermutes ==
    [][last'.op = "drag_motion" =>
          /\ last'.reqs = <<>>
          /\ workspaces' = workspaces /\ pending' = pending
          /\ Len(container') = Len(container)
          /\ {container'[i] : i \in 1..Len(container')}
                 = {container[i] : i \in 1..Len(container)}
          /\ LET target == drag'.over + 1
             IN  IF container[target].h # drag.h
                 THEN /\ container'[target].h = drag.h
                      /\ others(container', drag.h) = others(container, drag.h)
                 ELSE container' = container]_vars

-----------------------------------------------------------------------------
\* The two passes side by side.

\* C28: from the same buttons, under the same configuration and the same
\* outcome of the fetch, populate_workspaces and the channel handler decide
\* alike on rebuilding and leave the same buttons: the same stored ids, labels,
\* names, flags, visibility, click handlers and drag handlers, in the same
\* order; when the fetch fails both leave the buttons as they are.
PathsEquivalent ==
    \A r \in FetchOutcomes :
        LET by_populate == pass(container, drag, "populate", r)
            by_event == pass(container, drag, "event", r)
        IN  /\ by_populate = by_event
            /\ (handle_seq(by_populate) = handle_seq(container))
                   <=> (handle_seq(by_event) = handle_seq(container))
            /\ ~get_workspace_info_ok(r[1], r[2]) =>
                   by_populate = container /\ by_event = container

\* a pass has built the buttons and a drag has reordered them, clicks being
\* disabled: either pass would now rebuild
WitnessBothWouldRebuild ==
    /\ config.disable_click
    /\ drag.active
    /\ Len(container) >= 2
    /\ stored_ids(container) # ids_of(view)
    /\ handle_seq(pass(container, drag, "event", <<"ok", "ok">>)) # handle_seq(container)
    /\ handle_seq(pass(container, drag, "populate", <<"ok", "ok">>)) # handle_seq(container)

====
